---------------------------- MODULE Spec2Model ----------------------------
(***************************************************************************)
(* Model of src/src/app.js (dodgem): the promise chain started by the      *)
(* `bump` command                                                          *)
(*     boot -> login -> scrapeTrades -> bumpTrades -> scheduleBumpTrades   *)
(* and the chain started by each timer armed in scheduleBumpTrades         *)
(*     scrapeTrades -> bumpTrades -> scheduleBumpTrades.                   *)
(* Every awaited page operation is one step that either resolves or        *)
(* rejects.  A rejection inside the try block of bumpTrades is caught; any *)
(* other rejection rejects the chain, which has no catch handler.          *)
(* Time is a clock in milliseconds that advances in steps of TickMs.       *)
(***************************************************************************)
EXTENDS Integers, Sequences, FiniteSets, TLC

\* ------------------------------------------------------------- bounds
MaxListing == 3      \* longest listing page.evaluate returns
MaxInterval == 2     \* largest <interval> argument, in minutes
MaxTicks == 14       \* the clock stops advancing after this many ticks
TickMs == 10000      \* clock granularity, in milliseconds

\* ------------------------------------------------------------- values
Undef == 0                       \* JavaScript undefined, as an array element
Urls == 1 .. MaxListing          \* hrefs of the trade anchors
Targets == {"all", "oldest"}     \* <target> argument
Intervals == 1 .. MaxInterval    \* <interval> argument

RECURSIVE SeqsOfLen(_)
SeqsOfLen(n) ==
  IF n = 0 THEN {<<>>}
  ELSE {Append(s, u) : s \in SeqsOfLen(n - 1), u \in Urls}

Range(s) == {s[i] : i \in 1 .. Len(s)}

\* The listings the page can show: each trade has its own URL.
Listings ==
  {s \in UNION {SeqsOfLen(n) : n \in 0 .. MaxListing} : Cardinality(Range(s)) = Len(s)}

VARIABLES
  target,      \* args.target
  interval,    \* args.interval
  hasCreds,    \* preferences.emailAddress / preferences.password are stored
  pc,          \* the function the chain is in: boot, login, scrape, bump,
               \*   schedule; idle = no chain running; rejected = chain rejected
  step,        \* the awaited operation the function is at (0 = loop head)
  now,         \* the clock, in ms
  timers,      \* pending setTimeout timers: <<[due, cb, delay, armedAt]>>
  listing,     \* the array page.evaluate returned in this cycle
  tradeUrls,   \* tradeUrls as passed to bumpTrades
  index,       \* humanIndex of the item of the for loop (0 before the loop)
  trail,       \* the steps performed on the current item, in order
  outcomes,    \* spinner.succeed / spinner.fail of this cycle, in order
  attempts,    \* the humanIndex of each page.goto(tradeUrl) of this cycle
  faults,      \* the humanIndexes whose action had a page operation reject
  navs,        \* page.goto calls issued by the current chain
  cycle,       \* cycles started so far
  cycleStart,  \* the clock when the current cycle started
  cyclesDone,  \* cycles whose bumpTrades has returned
  waits,       \* the cycle timers that have fired: <<[delay, waited, after]>>
  session,     \* the cycle whose login produced the logged-in page (0 = none)
  nextRunTs,   \* the time of day last announced by scheduleBumpTrades (-1 = none)
  scheduledAt  \* the clock at the last scheduleBumpTrades call (-1 = none)

vars == <<target, interval, hasCreds, pc, step, now, timers, listing, tradeUrls,
          index, trail, outcomes, attempts, faults, navs, cycle, cycleStart,
          cyclesDone, waits, session, nextRunTs, scheduledAt>>

config == <<target, interval, hasCreds>>
itemVars == <<tradeUrls, index, trail, outcomes, attempts, faults>>
histVars == <<cycle, cycleStart, cyclesDone, waits, session, nextRunTs, scheduledAt>>

\* ------------------------------------------------------------ helpers

\* array[i] of JavaScript for a 1-based position: undefined out of range.
At(s, i) == IF i \in 1 .. Len(s) THEN s[i] ELSE Undef

\* A reduction that takes the first entry.
SelectFirst(tgt, urls) == IF tgt = "oldest" THEN <<At(urls, 1)>> ELSE urls
\* app.js:100  if (args.target === 'oldest') tradeUrls = [tradeUrls[tradeUrls.length - 1]]
Select(tgt, urls) == IF tgt = "oldest" THEN <<At(urls, Len(urls))>> ELSE urls

\* A delay that takes the interval for seconds.
TimerDelaySeconds(minutes) == 1000 * minutes
\* app.js:176  1000 * 60 * minutes
TimerDelay(minutes) == 1000 * 60 * minutes

\* app.js:133  delay(1000 * 10)
CooldownDelay == 1000 * 10

\* app.js:168  moment().add(minutes, 'minutes').format('HH:mm:ss'): the time of
\* day in whole seconds; the date and the milliseconds are dropped.
FormatHHmmss(ms) == (ms \div 1000) % 86400
\* An announcement computed from the start of the cycle.
NextRunFromCycleStart(minutes) == FormatHHmmss(cycleStart + minutes * 60 * 1000)
\* app.js:168  moment().add(minutes, 'minutes')
NextRun(minutes) == FormatHHmmss(now + minutes * 60 * 1000)

\* The awaited operations of login (app.js:53-65), in order.
LoginOps == <<"goto", "focus", "typeEmail", "focus", "typePassword", "click",
              "waitForNavigation">>
\* The awaited operations of scrapeTrades (app.js:86-92), in order.
ScrapeOps == <<"goto", "hover", "click", "waitForNavigation", "evaluate">>
\* The awaited operations of one item of bumpTrades (app.js:125-138), in order.
ItemOps == <<"goto", "editClick", "editNav", "cooldown", "saveClick", "saveNav">>

\* A loop body without a try block.
InTryNone(s) == s \in {}
\* A try block that ends before the last waitForNavigation.
InTryButSaveNav(s) == s \in 1 .. Len(ItemOps) - 1
\* app.js:123-153: the operations of an item that are inside the try block.
InTry(s) == s \in 1 .. Len(ItemOps)

\* A cooldown that is awaited whatever the target.
HasCooldownAlways(tgt) == tgt \in Targets
\* app.js:131  if (args.target === 'all'): the cooldown is awaited.
HasCooldown(tgt) == tgt = "all"

\* page.type(undefined) throws; every other operation may resolve or reject.
LoginMayResolve(s) ==
  LoginOps[s] \in {"typeEmail", "typePassword"} => hasCreds

\* page.goto(undefined) rejects.
GotoMayResolve(url) == url # Undef

Outcome(i, url, ok) == [index |-> i, url |-> url, ok |-> ok]

Init ==
  /\ target \in Targets
  /\ interval \in Intervals
  /\ hasCreds \in BOOLEAN
  /\ pc = "boot"
  /\ step = 0
  /\ now = 0
  /\ timers = <<>>
  /\ listing = <<>>
  /\ tradeUrls = <<>>
  /\ index = 0
  /\ trail = <<>>
  /\ outcomes = <<>>
  /\ attempts = <<>>
  /\ faults = {}
  /\ navs = 0
  /\ cycle = 0
  /\ cycleStart = 0
  /\ cyclesDone = 0
  /\ waits = <<>>
  /\ session = 0
  /\ nextRunTs = -1
  /\ scheduledAt = -1

\* The chain rejects: nothing handles it, no later stage runs.
Reject ==
  /\ pc' = "rejected"
  /\ step' = 0

\* ------------------------------------------------------------ actions

\* app.js:27-35, 241-243: boot launches the browser, then login is called.
\* The first cycle starts here.
Boot ==
  /\ pc = "boot"
  /\ \E ok \in BOOLEAN :
       IF ok
       THEN /\ pc' = "login"
            /\ step' = 1
            /\ cycle' = cycle + 1
            /\ cycleStart' = now
       ELSE /\ Reject
            /\ UNCHANGED <<cycle, cycleStart>>
  /\ UNCHANGED <<config, now, timers, listing, itemVars, navs, cyclesDone, waits,
                 session, nextRunTs, scheduledAt>>

\* app.js:45-69: one awaited operation of login.
Login ==
  /\ pc = "login"
  /\ step \in 1 .. Len(LoginOps)
  /\ navs' = IF LoginOps[step] = "goto" THEN navs + 1 ELSE navs
  /\ \E ok \in BOOLEAN :
       /\ ok => LoginMayResolve(step)
       /\ IF ~ok
          THEN Reject /\ UNCHANGED session
          ELSE IF step < Len(LoginOps)
          THEN pc' = pc /\ step' = step + 1 /\ UNCHANGED session
          ELSE pc' = "scrape" /\ step' = 1 /\ session' = cycle
  /\ UNCHANGED <<config, now, timers, listing, itemVars, cycle, cycleStart,
                 cyclesDone, waits, nextRunTs, scheduledAt>>

\* app.js:79-89: one of the navigation operations of scrapeTrades.
ScrapeNavigate ==
  /\ pc = "scrape"
  /\ step \in 1 .. Len(ScrapeOps) - 1
  /\ navs' = IF ScrapeOps[step] = "goto" THEN navs + 1 ELSE navs
  /\ \E ok \in BOOLEAN :
       IF ok THEN pc' = pc /\ step' = step + 1 ELSE Reject
  /\ UNCHANGED <<config, now, timers, listing, itemVars, histVars>>

\* A test of the target that assigns it: if (args.target = 'oldest').
ScrapeEvaluateAssign ==
  /\ pc = "scrape"
  /\ step = Len(ScrapeOps)
  /\ \/ /\ Reject
        /\ UNCHANGED <<target, listing, itemVars>>
     \/ \E urls \in Listings :
          /\ target' = "oldest"
          /\ listing' = urls
          /\ tradeUrls' = Select("oldest", urls)
          /\ pc' = "bump"
          /\ step' = 0
          /\ index' = 0
          /\ trail' = <<>>
          /\ outcomes' = <<>>
          /\ attempts' = <<>>
          /\ faults' = {}
  /\ UNCHANGED <<interval, hasCreds, now, timers, navs, histVars>>

\* app.js:92-101: page.evaluate returns the listing; the target reduces it;
\* bumpTrades is entered with the result.
ScrapeEvaluate ==
  /\ pc = "scrape"
  /\ step = Len(ScrapeOps)
  /\ \/ /\ Reject
        /\ UNCHANGED <<listing, itemVars>>
     \/ \E urls \in Listings :
          /\ listing' = urls
          /\ tradeUrls' = Select(target, urls)
          /\ pc' = "bump"
          /\ step' = 0
          /\ index' = 0
          /\ trail' = <<>>
          /\ outcomes' = <<>>
          /\ attempts' = <<>>
          /\ faults' = {}
  /\ UNCHANGED <<config, now, timers, navs, histVars>>

\* app.js:114: the for loop takes the next entry of tradeUrls.
BumpNextItem ==
  /\ pc = "bump"
  /\ step = 0
  /\ index < Len(tradeUrls)
  /\ index' = index + 1
  /\ step' = 1
  /\ trail' = <<>>
  /\ UNCHANGED <<config, pc, now, timers, listing, tradeUrls, outcomes,
                 attempts, faults, navs, histVars>>

\* A catch block that swallows the rejection without reporting the item.
FailSilent(s) ==
  /\ faults' = faults \cup {index}
  /\ pc' = pc
  /\ step' = 0
  /\ UNCHANGED outcomes

\* A catch block around each operation: the item is reported as failed and
\* its next operation runs.
FailContinue(s) ==
  /\ faults' = faults \cup {index}
  /\ outcomes' = Append(outcomes, Outcome(index, tradeUrls[index], FALSE))
  /\ pc' = pc
  /\ step' = IF s = 3 THEN 5 ELSE IF s < Len(ItemOps) THEN s + 1 ELSE 0

\* app.js:145-153: the catch block reports the item as failed, the loop goes
\* on; a rejection outside the try block rejects bumpTrades.
Fail(s) ==
  /\ faults' = faults \cup {index}
  /\ IF InTry(s)
     THEN /\ outcomes' = Append(outcomes, Outcome(index, tradeUrls[index], FALSE))
          /\ pc' = pc
          /\ step' = 0
     ELSE /\ Reject
          /\ UNCHANGED outcomes

\* The operation at position s of the item resolved.
Pass(s) ==
  /\ step' = s + 1
  /\ pc' = pc
  /\ UNCHANGED <<outcomes, faults>>

\* app.js:125: page.goto(tradeUrl).
BumpGoto ==
  /\ pc = "bump"
  /\ step = 1
  /\ attempts' = Append(attempts, index)
  /\ navs' = navs + 1
  /\ trail' = Append(trail, ItemOps[1])
  /\ \E ok \in BOOLEAN :
       /\ ok => GotoMayResolve(tradeUrls[index])
       /\ IF ok THEN Pass(1) ELSE Fail(1)
  /\ UNCHANGED <<config, now, timers, listing, tradeUrls, index, histVars>>

\* app.js:128: page.click on the edit link.
BumpEditClick ==
  /\ pc = "bump"
  /\ step = 2
  /\ trail' = Append(trail, ItemOps[2])
  /\ \E ok \in BOOLEAN : IF ok THEN Pass(2) ELSE Fail(2)
  /\ UNCHANGED <<config, now, timers, listing, tradeUrls, index, attempts,
                 navs, histVars>>

\* app.js:129-134: page.waitForNavigation after the edit click; with target
\* all the cooldown timer is armed next, otherwise the save follows.
BumpEditNav ==
  /\ pc = "bump"
  /\ step = 3
  /\ \E ok \in BOOLEAN :
       IF ~ok
       THEN /\ Fail(3)
            /\ trail' = Append(trail, ItemOps[3])
            /\ UNCHANGED timers
       ELSE IF HasCooldown(target)
       THEN /\ Pass(3)
            /\ trail' = trail \o <<ItemOps[3], ItemOps[4]>>
            /\ timers' = Append(timers, [due |-> now + CooldownDelay, cb |-> "delay",
                                         delay |-> CooldownDelay, armedAt |-> now])
       ELSE /\ step' = 5
            /\ pc' = pc
            /\ trail' = Append(trail, ItemOps[3])
            /\ UNCHANGED <<outcomes, faults, timers>>
  /\ UNCHANGED <<config, now, listing, tradeUrls, index, attempts, navs, histVars>>

\* app.js:229-231: the timer of delay fires and resolves its promise.
DelayResolve ==
  /\ pc = "bump"
  /\ step = 4
  /\ \E k \in 1 .. Len(timers) :
       /\ timers[k].cb = "delay"
       /\ timers[k].due <= now
       /\ timers' = SubSeq(timers, 1, k - 1) \o SubSeq(timers, k + 1, Len(timers))
  /\ step' = 5
  /\ UNCHANGED <<config, pc, now, listing, itemVars, navs, histVars>>

\* app.js:137: page.click on the save button.
BumpSaveClick ==
  /\ pc = "bump"
  /\ step = 5
  /\ trail' = Append(trail, ItemOps[5])
  /\ \E ok \in BOOLEAN : IF ok THEN Pass(5) ELSE Fail(5)
  /\ UNCHANGED <<config, now, timers, listing, tradeUrls, index, attempts,
                 navs, histVars>>

\* app.js:138-144: page.waitForNavigation after the save click; on success the
\* item is reported as bumped.
BumpSaveNav ==
  /\ pc = "bump"
  /\ step = 6
  /\ trail' = Append(trail, ItemOps[6])
  /\ \E ok \in BOOLEAN :
       IF ok
       THEN /\ outcomes' = Append(outcomes, Outcome(index, tradeUrls[index], TRUE))
            /\ pc' = pc
            /\ step' = 0
            /\ UNCHANGED faults
       ELSE Fail(6)
  /\ UNCHANGED <<config, now, timers, listing, tradeUrls, index, attempts,
                 navs, histVars>>

\* A loop that a failed item ends.
BumpReturnOnFault ==
  /\ pc = "bump"
  /\ step = 0
  /\ (index >= Len(tradeUrls) \/ faults # {})
  /\ pc' = "schedule"
  /\ cyclesDone' = cyclesDone + 1
  /\ UNCHANGED <<config, step, now, timers, listing, itemVars, navs, cycle,
                 cycleStart, waits, session, nextRunTs, scheduledAt>>

\* A loop that returns after any pass.
BumpReturnEarly ==
  /\ pc = "bump"
  /\ step = 0
  /\ pc' = "schedule"
  /\ cyclesDone' = cyclesDone + 1
  /\ UNCHANGED <<config, step, now, timers, listing, itemVars, navs, cycle,
                 cycleStart, waits, session, nextRunTs, scheduledAt>>

\* app.js:154-156: the loop is over, bumpTrades returns.
BumpReturn ==
  /\ pc = "bump"
  /\ step = 0
  /\ index >= Len(tradeUrls)
  /\ pc' = "schedule"
  /\ cyclesDone' = cyclesDone + 1
  /\ UNCHANGED <<config, step, now, timers, listing, itemVars, navs, cycle,
                 cycleStart, waits, session, nextRunTs, scheduledAt>>

\* The locals of scrapeTrades and bumpTrades are gone once the chain is over.
DropLocals ==
  /\ listing' = <<>>
  /\ tradeUrls' = <<>>
  /\ index' = 0
  /\ trail' = <<>>
  /\ outcomes' = <<>>
  /\ attempts' = <<>>
  /\ faults' = {}
  /\ navs' = 0

\* app.js:166-177: scheduleBumpTrades announces the next run and arms the
\* timer of the next cycle; the chain is over.
ScheduleBumpTrades ==
  /\ pc = "schedule"
  /\ nextRunTs' = NextRun(interval)
  /\ scheduledAt' = now
  /\ timers' = Append(timers, [due |-> now + TimerDelay(interval), cb |-> "cycle",
                               delay |-> TimerDelay(interval), armedAt |-> now])
  /\ pc' = "idle"
  /\ DropLocals
  /\ UNCHANGED <<config, step, now, cycle, cycleStart, cyclesDone, waits, session>>

\* A timer callback that starts the chain at login.
TimerCallbackWithLogin ==
  /\ \E k \in 1 .. Len(timers) :
       /\ timers[k].cb = "cycle"
       /\ timers[k].due <= now
       /\ timers' = SubSeq(timers, 1, k - 1) \o SubSeq(timers, k + 1, Len(timers))
       /\ waits' = Append(waits, [delay |-> timers[k].delay,
                                  waited |-> now - timers[k].armedAt,
                                  after |-> cyclesDone])
  /\ pc' = "login"
  /\ step' = 1
  /\ cycle' = cycle + 1
  /\ cycleStart' = now
  /\ UNCHANGED <<config, now, listing, itemVars, navs, cyclesDone, session,
                 nextRunTs, scheduledAt>>

\* A timer armed with setInterval: it stays pending after it has fired.
TimerCallbackInterval ==
  /\ \E k \in 1 .. Len(timers) :
       /\ timers[k].cb = "cycle"
       /\ timers[k].due <= now
       /\ timers' = [timers EXCEPT ![k].due = now + timers[k].delay,
                                   ![k].armedAt = now]
       /\ waits' = Append(waits, [delay |-> timers[k].delay,
                                  waited |-> now - timers[k].armedAt,
                                  after |-> cyclesDone])
  /\ pc' = "scrape"
  /\ step' = 1
  /\ cycle' = cycle + 1
  /\ cycleStart' = now
  /\ UNCHANGED <<config, now, listing, itemVars, navs, cyclesDone, session,
                 nextRunTs, scheduledAt>>

\* app.js:172-175: the timer fires; its callback calls scrapeTrades with the
\* page of the previous cycle, whatever else is going on.  The next cycle
\* starts here.
TimerCallback ==
  /\ \E k \in 1 .. Len(timers) :
       /\ timers[k].cb = "cycle"
       /\ timers[k].due <= now
       /\ timers' = SubSeq(timers, 1, k - 1) \o SubSeq(timers, k + 1, Len(timers))
       /\ waits' = Append(waits, [delay |-> timers[k].delay,
                                  waited |-> now - timers[k].armedAt,
                                  after |-> cyclesDone])
  /\ pc' = "scrape"
  /\ step' = 1
  /\ cycle' = cycle + 1
  /\ cycleStart' = now
  /\ UNCHANGED <<config, now, listing, itemVars, navs, cyclesDone, session,
                 nextRunTs, scheduledAt>>

\* Time passes while an operation or a timer is awaited (scheduleBumpTrades
\* awaits nothing); a timer that is due fires before the clock moves on.
Tick ==
  /\ pc \notin {"rejected", "schedule"}
  /\ now < MaxTicks * TickMs
  /\ \A k \in 1 .. Len(timers) : timers[k].due > now
  /\ now' = now + TickMs
  /\ UNCHANGED <<config, pc, step, timers, listing, itemVars, navs, histVars>>

Next ==
  \/ Boot
  \/ Login
  \/ ScrapeNavigate
  \/ ScrapeEvaluate
  \/ BumpNextItem
  \/ BumpGoto
  \/ BumpEditClick
  \/ BumpEditNav
  \/ DelayResolve
  \/ BumpSaveClick
  \/ BumpSaveNav
  \/ BumpReturn
  \/ ScheduleBumpTrades
  \/ TimerCallback
  \/ Tick

Spec == Init /\ [][Next]_vars

\* The process does not stop while something can happen: an awaited
\* operation settles, a timer that is due fires, time passes.
Fairness == WF_vars(Next)

FairSpec == Spec /\ Fairness

TypeOK ==
  /\ target \in Targets
  /\ interval \in Intervals
  /\ hasCreds \in BOOLEAN
  /\ pc \in {"boot", "login", "scrape", "bump", "schedule", "idle", "rejected"}
  /\ step \in 0 .. 7
  /\ now \in 0 .. (MaxTicks * TickMs)
  /\ listing \in Listings
  /\ index \in 0 .. Len(tradeUrls)
  /\ cycle \in Nat
  /\ session \in 0 .. cycle

\* ------------------------------------------------------------- claims

Running == pc \in {"boot", "login", "scrape", "bump", "schedule"}
CycleTimers == {k \in 1 .. Len(timers) : timers[k].cb = "cycle"}
Discovered == pc \in {"bump", "schedule"}

\* C1: once the first cycle has started, either a cycle is running or a timer
\* for the next cycle is pending, whatever the outcome of the cycles so far
\* (a cycle whose login or listing step fails included).
C1_LoopUnconditional ==
  cycle >= 1 => (Running \/ CycleTimers # {})

\* C2: one cycle of bumpTrades reports exactly one outcome per entry of
\* tradeUrls, in the order of tradeUrls: while the loop runs the outcomes are
\* those of the entries already handled, when it returns there are
\* Len(tradeUrls) of them, and the i-th outcome is that of the i-th entry.
C2_OneOutcomePerItem ==
  /\ (pc = "bump" /\ step = 0) => Len(outcomes) = index
  /\ (pc = "bump" /\ step > 0) => Len(outcomes) = index - 1
  /\ pc = "schedule" => Len(outcomes) = Len(tradeUrls)
  /\ \A i \in 1 .. Len(outcomes) :
       outcomes[i].index = i /\ outcomes[i].url = tradeUrls[i]

C2_Witness ==
  /\ pc = "schedule"
  /\ Len(tradeUrls) = 3
  /\ Len(outcomes) = 3
  /\ tradeUrls[1] > tradeUrls[2]
  /\ \E i, j \in 1 .. 3 : outcomes[i].ok /\ ~outcomes[j].ok

\* C3: when the listing is empty the cycle has no item outcome and attempts
\* no item action, with target all and with target oldest.
C3_EmptyListingNoOutcome ==
  (Discovered /\ listing = <<>>) =>
     (tradeUrls = <<>> /\ attempts = <<>> /\ outcomes = <<>>)

\* C4: with target oldest the sequence handed to bumpTrades has at most one
\* entry, and when the listing is not empty it is the last entry of the
\* listing; with target all it is the listing unchanged.
C4_OldestIsLast ==
  Discovered =>
    /\ target = "oldest" =>
         /\ Len(tradeUrls) <= 1
         /\ listing # <<>> => tradeUrls = <<listing[Len(listing)]>>
    /\ target = "all" => tradeUrls = listing

C4_Witness ==
  /\ pc = "bump"
  /\ target = "oldest"
  /\ Len(listing) = 3
  /\ listing[3] = 2

\* C5: a failure of login or of a step of scrapeTrades is not thrown out of
\* the pipeline: the chain of a started cycle is never left rejected.
C5_DiscoveryFailureNotThrown ==
  cycle >= 1 => pc # "rejected"

\* C6: a rejection of any page operation of an item (goto, edit click, edit
\* navigation, save click, save navigation) leaves bumpTrades unrejected and
\* the item reported as failed.
C6_ItemFailureCaught ==
  \A i \in faults :
    /\ pc # "rejected"
    /\ i <= Len(outcomes)
    /\ ~outcomes[i].ok

C6_Witness ==
  /\ pc = "bump"
  /\ step = 0
  /\ index \in faults
  /\ trail # <<>>
  /\ trail[Len(trail)] = "saveNav"
  /\ Len(outcomes) = index
  /\ ~outcomes[index].ok

\* C7: every entry of tradeUrls is attempted exactly once per cycle, in
\* order, whichever of them fail, and the outcome at position i is failed
\* exactly when the action on entry i had an operation reject.
C7_EveryItemOnce ==
  /\ \A i, j \in 1 .. Len(attempts) : i < j => attempts[i] < attempts[j]
  /\ pc = "schedule" => attempts = [i \in 1 .. Len(tradeUrls) |-> i]
  /\ \A i \in 1 .. Len(outcomes) : outcomes[i].ok <=> i \notin faults

C7_Witness ==
  /\ pc = "schedule"
  /\ Len(tradeUrls) = 3
  /\ faults = {2}
  /\ attempts = <<1, 2, 3>>
  /\ outcomes[1].ok /\ ~outcomes[2].ok /\ outcomes[3].ok

\* C8: no timer precedes the first cycle, and every later cycle is started
\* by a timer of interval minutes that was armed after the cycle before it
\* had completed and that did not fire early: with N cycles started there
\* have been N-1 waits, each of the configured interval.
C8_FirstImmediateThenInterval ==
  /\ cycle = 0 => (waits = <<>> /\ timers = <<>>)
  /\ cycle >= 1 => Len(waits) = cycle - 1
  /\ \A k \in 1 .. Len(waits) :
       /\ waits[k].delay = interval * 60000
       /\ waits[k].waited >= interval * 60000
       /\ waits[k].after = k
  /\ \A k \in CycleTimers :
       /\ timers[k].delay = interval * 60000
       /\ cyclesDone = cycle

C8_Witness ==
  /\ cycle = 3
  /\ Len(waits) = 2
  /\ pc = "bump"

\* C9 as claimed: the next run is the configured interval after the START of
\* the cycle that schedules it, however long that cycle took.
C9_NextRunFromCycleStart ==
  pc = "idle" =>
    /\ nextRunTs = ((cycleStart + interval * 60000) \div 1000) % 86400
    /\ \A k \in CycleTimers : timers[k].due = cycleStart + interval * 60000

\* C9 as amended: the next run is the configured interval after the call of
\* scheduleBumpTrades, that is after the END of the cycle that schedules it.
C9_NextRunFromCycleEnd ==
  pc = "idle" =>
    /\ scheduledAt >= cycleStart
    /\ nextRunTs = ((scheduledAt + interval * 60000) \div 1000) % 86400
    /\ \A k \in CycleTimers : timers[k].due = scheduledAt + interval * 60000

C9_Witness ==
  /\ pc = "idle"
  /\ CycleTimers # {}
  /\ scheduledAt > cycleStart
  /\ interval = 2

\* C10 as claimed: every cycle performs its own login, so the session a cycle
\* scrapes and bumps with was created in that cycle.
C10_EveryCycleLogsIn ==
  pc \in {"scrape", "bump", "schedule"} => session = cycle

\* C10 as amended: only the first cycle logs in; every later cycle performs
\* no login and uses the session of the first cycle.
C10_LoginOnlyInFirstCycle ==
  /\ pc = "login" => cycle = 1
  /\ pc \in {"scrape", "bump", "schedule", "idle"} => session = 1

C10_Witness ==
  /\ cycle = 2
  /\ pc = "bump"
  /\ step = 6
  /\ session = 1

ItemInProgress == pc = "bump" /\ step > 0
NumCycleTimers == Cardinality(CycleTimers)

\* C11: cycles never overlap.  While the timer of the next cycle is pending
\* no chain is running; a running cycle is the only one not yet completed;
\* bumpTrades returns only when every entry has its outcome; no item action
\* starts before discovery is over; at most one item action is in progress.
C11_NoOverlap ==
  /\ CycleTimers # {} => pc = "idle"
  /\ pc \in {"login", "scrape", "bump"} => cycle = cyclesDone + 1
  /\ pc \in {"schedule", "idle"} => cycle = cyclesDone
  /\ pc = "schedule" => (index = Len(tradeUrls) /\ Len(outcomes) = Len(tradeUrls))
  /\ pc \in {"boot", "login", "scrape"} => (attempts = <<>> /\ outcomes = <<>>)
  /\ Len(attempts) - Len(outcomes) \in {0, 1}
  /\ Len(attempts) - Len(outcomes) = 1 => ItemInProgress

C11_Witness ==
  /\ cycle = 2
  /\ pc = "bump"
  /\ step = 3
  /\ index = 2
  /\ Len(attempts) = 2
  /\ Len(outcomes) = 1

\* C12: with no stored credentials the login step fails without having
\* issued any page navigation.
C12_MissingCredentialsNoNavigation ==
  ~hasCreds => navs = 0

\* The order of the operations of an item for a target.
StepOrder(tgt) ==
  IF tgt = "all"
  THEN <<"goto", "editClick", "editNav", "cooldown", "saveClick", "saveNav">>
  ELSE <<"goto", "editClick", "editNav", "saveClick", "saveNav">>

\* C13: the operations of an item run in the order navigate, edit click,
\* edit navigation, (cooldown), save click, save navigation; the cooldown, a
\* timer of 10 seconds, is awaited between edit and save exactly when the
\* target is all, and the save click does not come before it has elapsed.
C13_StepOrderAndCooldown ==
  /\ [](/\ Len(trail) <= Len(StepOrder(target))
        /\ trail = SubSeq(StepOrder(target), 1, Len(trail))
        /\ (pc = "bump" /\ step = 5) => Len(trail) = (IF target = "all" THEN 4 ELSE 3)
        /\ \A k \in 1 .. Len(timers) :
             timers[k].cb = "delay" =>
               /\ target = "all"
               /\ pc = "bump" /\ step = 4
               /\ timers[k].delay = 10000
               /\ timers[k].due = timers[k].armedAt + 10000
               /\ trail = <<"goto", "editClick", "editNav", "cooldown">>
        /\ (pc = "bump" /\ step = 4) =>
             \E k \in 1 .. Len(timers) : timers[k].cb = "delay")
  /\ [][(pc = "bump" /\ step = 4 /\ step' # 4) =>
          /\ step' = 5
          /\ \E k \in 1 .. Len(timers) :
               timers[k].cb = "delay" /\ now >= timers[k].armedAt + 10000]_vars

C13_Witness ==
  /\ pc = "bump"
  /\ step = 0
  /\ target = "all"
  /\ trail = <<"goto", "editClick", "editNav", "cooldown", "saveClick", "saveNav">>
  /\ outcomes # <<>>
  /\ outcomes[1].ok

C13_WitnessOldest ==
  /\ pc = "bump"
  /\ step = 0
  /\ target = "oldest"
  /\ trail = <<"goto", "editClick", "editNav", "saveClick", "saveNav">>

\* C14: no step changes the target or the interval: discovery, the item loop
\* and the scheduler work with the values given at process start in every
\* cycle.
C14_ConfigNeverMutated ==
  [][target' = target /\ interval' = interval /\ hasCreds' = hasCreds]_vars

C14_Witness ==
  /\ cycle = 2
  /\ pc = "idle"
  /\ target = "oldest"
  /\ interval = 1
  /\ NumCycleTimers = 1

\* C15: at most one timer of the next cycle is pending; such a timer is armed
\* only by scheduleBumpTrades at the end of a cycle; a cycle after the first
\* starts only by the firing of one timer, and each firing starts one cycle.
C15_OneTimerOneCycle ==
  /\ [](NumCycleTimers <= 1)
  /\ [][/\ NumCycleTimers' > NumCycleTimers =>
             (pc = "schedule" /\ pc' = "idle" /\ NumCycleTimers' = NumCycleTimers + 1)
        /\ NumCycleTimers' < NumCycleTimers =>
             (NumCycleTimers' = NumCycleTimers - 1 /\ cycle' = cycle + 1)
        /\ cycle' # cycle =>
             /\ cycle' = cycle + 1
             /\ cycle >= 1 => NumCycleTimers' = NumCycleTimers - 1]_vars

C15_Witness ==
  /\ cycle = 3
  /\ pc = "idle"
  /\ NumCycleTimers = 1
  /\ Len(waits) = 2

\* C16: within one item the save click is issued only after the navigation,
\* the edit click and the edit navigation of that item have all resolved; once
\* an operation of the item has rejected, no further operation of that item
\* runs; the next item starts with its own navigation.
C16_NoStepAfterFailure ==
  /\ [](/\ ItemInProgress => index \notin faults
        /\ (pc = "bump" /\ step = 1) => trail = <<>>
        /\ trail # <<>> => trail[1] = "goto"
        /\ \A k \in 1 .. Len(trail) :
             trail[k] = "saveClick" =>
               (k > 3 /\ SubSeq(trail, 1, 3) = <<"goto", "editClick", "editNav">>))
  /\ [][(pc = "bump" /\ index \in faults /\ pc' = "bump" /\ index' = index)
          => (trail' = trail /\ timers' = timers /\ navs' = navs)]_vars
  /\ [][(pc = "bump" /\ index' # index /\ pc' = "bump")
          => (index' = index + 1 /\ step' = 1 /\ trail' = <<>>)]_vars

C16_Witness ==
  /\ pc = "bump"
  /\ step = 5
  /\ index = 2
  /\ 1 \in faults
  /\ ~outcomes[1].ok
  /\ target = "all"

ClockAtEnd == now >= MaxTicks * TickMs

\* The position of bumpTrades in its loop, as a number that grows with every
\* operation: the loop head after the item at index counts as its last step.
LoopProgress ==
  IF step = 0 THEN 7 * index + 7 ELSE 7 * index + step

BumpStep ==
  \/ BumpNextItem
  \/ BumpGoto
  \/ BumpEditClick
  \/ BumpEditNav
  \/ DelayResolve
  \/ BumpSaveClick
  \/ BumpSaveNav
  \/ BumpReturn

\* C17: once the listing step of a cycle has succeeded, the cycle reaches
\* scheduleBumpTrades exactly once, however many items fail.  No step of
\* bumpTrades rejects the chain; bumpTrades is never stuck (a step of it can
\* be taken, or it awaits the cooldown timer); every step of it moves the
\* loop forward, within the length of tradeUrls, so the loop ends; from
\* scheduleBumpTrades the chain ends idle with one timer armed; and the
\* timers armed so far are as many as the cycles completed.
C17_ScheduledOncePerCycle ==
  /\ [][pc = "bump" => pc' \in {"bump", "schedule"}]_vars
  /\ [](pc = "bump" =>
          \/ ENABLED BumpStep
          \/ /\ step = 4
             /\ \E k \in 1 .. Len(timers) : timers[k].cb = "delay"
             /\ (ENABLED Tick \/ ClockAtEnd))
  /\ [][(pc = "bump" /\ pc' = "bump" /\ <<step, index>>' # <<step, index>>) =>
          /\ LoopProgress' > LoopProgress
          /\ LoopProgress' <= 7 * Len(tradeUrls) + 7
          /\ tradeUrls' = tradeUrls]_vars
  /\ [](pc = "schedule" => ENABLED ScheduleBumpTrades)
  /\ [][pc = "schedule" =>
          (pc' = "idle" /\ NumCycleTimers' = 1 /\ cyclesDone' = cyclesDone)]_vars
  /\ [](pc = "idle" => Len(waits) + NumCycleTimers = cyclesDone)
  /\ [](pc \in {"bump", "schedule"} => Len(waits) + 1 = cycle)

\* C17, as a liveness property under FairSpec: a cycle that has its listing
\* ends idle with the timer of the next cycle armed, unless the clock of the
\* model has reached its end.
C17_EventuallyScheduled ==
  (pc = "bump") ~> ((pc = "idle" /\ NumCycleTimers = 1) \/ ClockAtEnd)

C17_Witness ==
  /\ pc = "schedule"
  /\ Len(tradeUrls) = 3
  /\ faults = {1, 2, 3}
  /\ cycle = 2

=============================================================================
